---- MODULE Spec2Model ----
(***************************************************************************)
(* Model of src/src/index.js (MotorCasino edge app): the fetch handler     *)
(* handleRequest with its helpers getCachedResponse, fetchFromS3,          *)
(* cacheResponse, extractRequestInfo, extractResponseHeaders and           *)
(* logToBigQuery.                                                          *)
(*                                                                         *)
(* The invocations of handleRequest in flight are a bag of records, one    *)
(* record per invocation holding its locals.  JavaScript runs the code     *)
(* between two I/O waits without interruption, so the actions              *)
(* are the pieces of handleRequest between its network waits: the cache    *)
(* lookup fetch (line 160), the origin fetch (line 149) and the cache      *)
(* write fetch (line 188).  logToBigQuery has no wait of its own: the      *)
(* piece that reaches it runs on through it to the return (Continue), and  *)
(* the platform takes the outcome and drops the invocation (Finish) before *)
(* the answer of any other wait is delivered (Running).                    *)
(*                                                                         *)
(* Spec runs up to NumReqs invocations together on a few sample requests;  *)
(* SpecExtract runs one invocation at a time on requests with every        *)
(* combination of absent, empty and non-empty client-IP headers.           *)
(*                                                                         *)
(* The cache store, the origin and the two log endpoints are collaborators *)
(* of the program: each of their answers (a value or a thrown fault) is a  *)
(* nondeterministic input of the action that receives it.                  *)
(*                                                                         *)
(* Strings that the code takes apart or concatenates (the path, the cache  *)
(* key, the object key) are sequences of one-character strings.            *)
(* responseTime and timestamp (Date.now(), new Date()) are left out: no    *)
(* branch depends on them.                                                 *)
(***************************************************************************)
EXTENDS Integers, Sequences, FiniteSets, Bags, TLC

\* ------------------------------------------------------------------ bounds
\* Number of handleRequest invocations that may be in flight together.
NumReqs == 2
\* Number of distinct request paths.
NumPaths == 2
\* Number of distinct contents the origin may hold for one object.
NumVersions == 2

\* --------------------------------------------------------- program constants
\* const CACHE_TTL = 800;
CACHE_TTL == 800
\* swr: 0 in the CacheOverride of cacheResponse
CACHE_SWR == 0

\* ------------------------------------------------------------------ values
NULL == [kind |-> "null"]

PathNames ==
    << <<"/", "a">>, <<"/", "b">>, <<"/", "a", "/">>, <<"/">> >>

Paths == {PathNames[i] : i \in 1..NumPaths}

\* Statuses the origin may answer with: one success, two failures.
OriginStatuses == {200, 404, 503}

\* Messages of the faults the origin fetch may throw.
OriginFaults == {"backend timeout", "dns failure"}

\* The headers extractRequestInfo asks for by name to find the client IP.
HeaderNames == {"fastly-client-ip", "x-forwarded-for", "x-real-ip"}

\* The non-empty value a header carries when it has one.
HeaderValue(name) ==
    CASE name = "fastly-client-ip" -> "10.0.0.1"
      [] name = "x-forwarded-for"  -> "10.0.0.2"
      [] name = "x-real-ip"        -> "10.0.0.3"

\* request.headers: the headers named in `present`, those in `empty` with
\* the empty string as value ("X-Real-IP:" with nothing after the colon).
Headers(present, empty) ==
    [n \in present |-> IF n \in empty THEN "" ELSE HeaderValue(n)]

\* The client-IP headers carried by the request for PathNames[i].
HeaderSamples ==
    << Headers({"x-forwarded-for", "x-real-ip"}, {}),
       Headers({}, {}),
       Headers({"fastly-client-ip", "x-real-ip"}, {}),
       Headers({"x-real-ip"}, {}) >>

\* Every combination of absent, empty and non-empty client-IP headers.
AllHeaders ==
    {Headers(present, empty) :
        present \in SUBSET HeaderNames, empty \in SUBSET HeaderNames}

TextBody(t) == [kind |-> "text", text |-> t]

\* ---------------------------------------------------------------- handleRequest
\* `s3-object:${path}`
CacheKeyPrefix == <<"s", "3", "-", "o", "b", "j", "e", "c", "t", ":">>

\* Mutant of cacheKey: the leading slash of the path is dropped.
cacheKey_NoSlash(path) == CacheKeyPrefix \o Tail(path)

cacheKey(path) == CacheKeyPrefix \o path

Keys == {cacheKey(p) : p \in Paths}

\* path.startsWith('/') ? path.slice(1) : path
objectKey(path) ==
    IF Len(path) > 0 /\ Head(path) = "/" THEN Tail(path) ELSE path

\* Mutant of ok: only 5xx statuses count as failures.
ok_Below500(resp) == resp.status >= 200 /\ resp.status <= 499

\* Response.ok
ok(resp) == resp.status >= 200 /\ resp.status <= 299

\* The Response the origin holds for an object: status, body and headers.
OriginResponse(path, status, ver) ==
    IF status >= 200 /\ status <= 299
    THEN [kind |-> "response", status |-> status,
          body |-> [kind |-> "object", key |-> objectKey(path), ver |-> ver],
          headers |-> [kind |-> "headers", etag |-> ver, server |-> "AmazonS3"]]
    ELSE [kind |-> "response", status |-> status,
          body |-> TextBody("origin error document"),
          headers |-> [kind |-> "headers", etag |-> 0, server |-> "AmazonS3"]]

\* new Response("Not Found", { status: 404 })
NotFoundResponse ==
    [kind |-> "response", status |-> 404, body |-> TextBody("Not Found"),
     headers |-> [kind |-> "headers"]]

\* Mutant of ServerErrorResponse: the catch block answers like the origin
\* failure branch.
ServerErrorResponse_NotFound == NotFoundResponse

\* new Response("Internal Server Error", { status: 500 })
ServerErrorResponse ==
    [kind |-> "response", status |-> 500,
     body |-> TextBody("Internal Server Error"),
     headers |-> [kind |-> "headers"]]

\* extractResponseHeaders: the entries of response.headers copied into a
\* plain object.
extractResponseHeaders(resp) ==
    [kind |-> "object", etag |-> resp.headers.etag,
     server |-> resp.headers.server]

\* request.headers.get(name) || otherwise: get gives null for an absent
\* header, and || passes over null and over the empty string.
GetOr(hdrs, name, otherwise) ==
    IF name \in DOMAIN hdrs /\ hdrs[name] # "" THEN hdrs[name] ELSE otherwise

\* Mutant of clientIP: the forwarded-for header is asked for first.
clientIP_ForwardedFirst(hdrs) ==
    GetOr(hdrs, "x-forwarded-for",
          GetOr(hdrs, "fastly-client-ip",
                GetOr(hdrs, "x-real-ip", "unknown")))

\* extractRequestInfo, lines 217-220: const clientIP.
clientIP(hdrs) ==
    GetOr(hdrs, "fastly-client-ip",
          GetOr(hdrs, "x-forwarded-for",
                GetOr(hdrs, "x-real-ip", "unknown")))

\* extractRequestInfo: the fields of the context that depend on the request.
extractRequestInfo(request, path) ==
    [ip |-> clientIP(request.headers), path |-> path,
     requestHeaders |-> request.headers]


\* ------------------------------------------------------------------- state
VARIABLES
    handlers,   \* the handleRequest invocations in flight (a bag of records)
    cache       \* the cache store: per key, the entry made of the last PUT
                \* it accepted, while its TTL lasts

vars == <<handlers, cache>>

\* The requests the handler may be given.  request.url of the last one does
\* not parse: new URL(request.url) throws a TypeError for it.
Requests ==
    {[kind |-> "request", urlValid |-> TRUE, path |-> PathNames[i],
      headers |-> HeaderSamples[i]] : i \in 1..NumPaths}
    \cup {[kind |-> "request", urlValid |-> FALSE, path |-> <<>>,
           headers |-> Headers({}, {})]}

\* The requests with every combination of client-IP headers.
AllRequests ==
    {[kind |-> "request", urlValid |-> TRUE, path |-> p, headers |-> hd] :
        p \in Paths, hd \in AllHeaders}

\* An invocation of handleRequest(request) at its first line.  Its fields:
\*   pc              where the invocation stands
\*   request         its argument
\*   requestInfo     const requestInfo (line 43)
\*   cacheKey        const cacheKey (line 48), empty until that line
\*   cachedResponse  const cachedResponse (line 49)
\*   s3Response      let s3Response (line 36)
\*   bodyUsed        the Response objects whose body was read
\*   putBody         the PUT request built by cacheResponse (line 182)
\*   logData         the argument of the pending logToBigQuery call
\*   toReturn        the operand of the return that follows that call
\*   response        the Response the invocation resolved to
\*   logCalls        the arguments of the logToBigQuery calls made so far
\*   bigquery        the entries bigqueryLogger accepted
\*   calls           how often it called extractRequestInfo and each store
\*   faults          the faults thrown while it ran: where, and the message
\*   steps           the order in which it went through its steps
Invocation(req) ==
    [pc |-> "start", request |-> req, requestInfo |-> NULL,
     cacheKey |-> <<>>,
     cachedResponse |-> NULL, s3Response |-> NULL, bodyUsed |-> {},
     putBody |-> NULL, logData |-> NULL, toReturn |-> NULL,
     response |-> NULL, logCalls |-> <<>>, bigquery |-> <<>>,
     calls |-> [extract |-> 0, get |-> 0, origin |-> 0, put |-> 0],
     faults |-> {}, steps |-> <<"start">>]

Handlers == BagToSet(handlers)

Replace(h, h2) == (handlers (-) SetToBag({h})) (+) SetToBag({h2})

Init ==
    /\ handlers = EmptyBag
    /\ cache = [k \in Keys |-> NULL]

\* Mutant of LogData: the cache status is not taken from the branch.
LogData_AlwaysMiss(info, cacheStatus, s3Headers, error, eventType) ==
    [ip |-> info.ip, path |-> info.path,
     requestHeaders |-> info.requestHeaders,
     cacheStatus |-> "MISS", s3ResponseHeaders |-> s3Headers,
     error |-> error, eventType |-> eventType]

\* The object literal handed to logToBigQuery: { ...requestInfo, cacheStatus,
\* s3ResponseHeaders, error, eventType }.  error is NULL where the literal
\* has no error property.
LogData(info, cacheStatus, s3Headers, error, eventType) ==
    [ip |-> info.ip, path |-> info.path,
     requestHeaders |-> info.requestHeaders,
     cacheStatus |-> cacheStatus, s3ResponseHeaders |-> s3Headers,
     error |-> error, eventType |-> eventType]

\* JSON.stringify of a header object.
Stringify(obj) == [kind |-> "json", of |-> obj]

\* Mutant of LogEntry: the origin headers are stringified whether or not
\* there are any.
LogEntry_AlwaysJson(data) ==
    [service |-> "motorcasino-edge-app", version |-> "1.0.0",
     requestHeadersJson |-> Stringify(data.requestHeaders),
     s3ResponseHeadersJson |-> Stringify(data.s3ResponseHeaders)] @@ data

\* logToBigQuery, lines 254-268: the log entry built from logData.
LogEntry(data) ==
    LET base == [service |-> "motorcasino-edge-app", version |-> "1.0.0",
                 requestHeadersJson |-> Stringify(data.requestHeaders)]
                @@ data
    IN IF data.s3ResponseHeaders # NULL
       THEN [s3ResponseHeadersJson |-> Stringify(data.s3ResponseHeaders)]
            @@ base
       ELSE base

\* The answers the cache store may give to the lookup of key k.
CacheAnswers(k) ==
    {[kind |-> "fault", message |-> "cache unavailable"]}
    \cup (IF cache[k] # NULL
          THEN {[kind |-> "response", status |-> 200,
                 body |-> cache[k].body, headers |-> cache[k].headers]}
          ELSE {[kind |-> "response", status |-> 404,
                 body |-> TextBody("no such object"),
                 headers |-> [kind |-> "headers"]]})

\* The answers the origin may give to the fetch of fetchFromS3 (line 149): a
\* Response of any status, or a thrown transport fault.
OriginAnswers(path) ==
    {[kind |-> "fault", message |-> m] : m \in OriginFaults}
    \cup {OriginResponse(path, st, v) :
            st \in {x \in OriginStatuses : x >= 200 /\ x <= 299},
            v \in 1..NumVersions}
    \cup {OriginResponse(path, st, 0) :
            st \in {x \in OriginStatuses : ~(x >= 200 /\ x <= 299)}}

\* The answers the cache store may give to the PUT of cacheResponse.
PutAnswers ==
    {[kind |-> "stored"], [kind |-> "fault", message |-> "cache unavailable"]}

\* Mutant of getCachedResponse: the lookup never yields a Response.
getCachedResponse_NeverHit(answer) == NULL

\* Mutant of getCachedResponse: the status of the answer is not tested.
getCachedResponse_AnyStatus(answer) ==
    IF answer.kind = "fault" THEN NULL ELSE answer

\* Mutant of getCachedResponse: its catch returns an error Response
\* instead of null.
getCachedResponse_FaultAsResponse(answer) ==
    IF answer.kind = "fault" THEN ServerErrorResponse
    ELSE IF answer.status = 200 THEN answer
    ELSE NULL

\* getCachedResponse, lines 164-172: what it returns for the answer of the
\* cache store (a Response, or a thrown fault).
getCachedResponse(answer) ==
    IF answer.kind = "fault" THEN NULL
    ELSE IF answer.status = 200 THEN answer
    ELSE NULL

\* Mutant of clone: no copy is made.
clone_SameObject(obj) == obj

\* Response.clone(): a new Response object on the same status, body and
\* headers.  An object is named by the expression that made it.
clone(obj) == Append(obj, "clone")

\* Mutant of cacheResponseThrows: cacheResponse has no try/catch.
cacheResponseThrows_NoCatch(answer) == answer.kind = "fault"

\* Whether cacheResponse throws to its caller when the cache store answered
\* the PUT with `answer`: the catch of lines 196-198 swallows every fault.
cacheResponseThrows(answer) == FALSE

\* Mutant of logToBigQueryThrows: logToBigQuery has no catch.
logToBigQueryThrows_NoCatch(accepted) == ~accepted

\* Whether logToBigQuery throws to its caller when the sink did not accept
\* the entry: the catch of lines 276-278 swallows every fault.
logToBigQueryThrows(accepted) == FALSE

\* The Response handed to the client when h returns the object ret.obj.
Returned(h, ret) ==
    [kind |-> "response", status |-> ret.resp.status, body |-> ret.resp.body,
     headers |-> ret.resp.headers, bodyUsed |-> ret.obj \in h.bodyUsed]


\* Mutant of Catch: the catch block logs the request info extracted at the
\* start of the request instead of extracting it again.
Catch_ReusesContext(h, message) ==
    IF ~h.request.urlValid
    THEN [h EXCEPT !.pc = "rejected",
                   !.faults = @ \cup {[at |-> "catch", message |-> "Invalid URL"]},
                   !.steps = @ \o <<"catch", "throw">>]
    ELSE [h EXCEPT !.pc = "log",
                   !.steps = @ \o <<"catch">>,
                   !.logData =
                        LogData(h.requestInfo, "ERROR",
                                IF h.s3Response # NULL
                                THEN extractResponseHeaders(h.s3Response)
                                ELSE NULL,
                                message, "error"),
                   !.toReturn = [obj |-> <<"new Response">>,
                                 resp |-> ServerErrorResponse]]

\* The catch block of handleRequest, lines 106-120, entered by invocation h
\* with the thrown fault's message: it parses request.url and extracts the
\* request info again, outside any try, then logs and answers 500.
Catch(h, message) ==
    IF ~h.request.urlValid
    THEN \* line 111 throws: the promise of handleRequest rejects
         [h EXCEPT !.pc = "rejected",
                   !.faults = @ \cup {[at |-> "catch", message |-> "Invalid URL"]},
                   !.steps = @ \o <<"catch", "throw">>]
    ELSE [h EXCEPT !.pc = "log",
                   !.calls.extract = @ + 1,
                   !.steps = @ \o <<"catch", "extract">>,
                   !.logData =
                        LogData(extractRequestInfo(h.request, h.request.path),
                                "ERROR",
                                IF h.s3Response # NULL
                                THEN extractResponseHeaders(h.s3Response)
                                ELSE NULL,
                                message, "error"),
                   !.toReturn = [obj |-> <<"new Response">>,
                                 resp |-> ServerErrorResponse]]

\* handleRequest up to the wait of the cache lookup: lines 35-49 and, inside
\* getCachedResponse, 159-160.
Started(req) ==
    LET h == Invocation(req)
    IN IF ~req.urlValid
       THEN \* new URL(request.url) throws at line 39
            Catch([h EXCEPT !.faults = {[at |-> "url", message |-> "Invalid URL"]}],
                  "Invalid URL")
       ELSE [h EXCEPT !.pc = "cacheGet",
                      !.requestInfo = extractRequestInfo(req, req.path),
                      !.cacheKey = cacheKey(req.path),
                      !.calls.extract = 1,
                      !.calls.get = 1,
                      !.steps = @ \o <<"extract", "cacheGet">>]

\* Mutant of AfterLookup: a miss joins the origin fetch of another request
\* for the same path instead of issuing its own.
AfterLookup_Coalesce(h, answer) ==
    LET cached == getCachedResponse(answer)
        g == [h EXCEPT !.cachedResponse = cached,
                       !.faults = IF answer.kind = "fault"
                                  THEN @ \cup {[at |-> "cacheRead",
                                                message |-> answer.message]}
                                  ELSE @]
        shared == \E o \in BagToSet(handlers) :
                        /\ o.pc = "originFetch"
                        /\ o.request.path = h.request.path
    IN IF cached # NULL
       THEN [g EXCEPT !.pc = "log",
                      !.steps = Append(@, "hit"),
                      !.logData = LogData(h.requestInfo, "HIT", NULL, NULL,
                                          "cache_hit"),
                      !.toReturn = [obj |-> <<"cachedResponse">>,
                                    resp |-> cached]]
       ELSE [g EXCEPT !.pc = "originFetch",
                      !.steps = @ \o <<"miss", "originFetch">>,
                      !.calls.origin = IF shared THEN @ ELSE @ + 1]

\* getCachedResponse returns on the answer of the cache store, and
\* handleRequest runs lines 51-69 up to the next wait: the log call on a
\* hit, the origin fetch otherwise.
AfterLookup(h, answer) ==
    LET cached == getCachedResponse(answer)
        g == [h EXCEPT !.cachedResponse = cached,
                       !.faults = IF answer.kind = "fault"
                                  THEN @ \cup {[at |-> "cacheRead",
                                                message |-> answer.message]}
                                  ELSE @]
    IN IF cached # NULL
       THEN [g EXCEPT !.pc = "log",
                      !.steps = Append(@, "hit"),
                      !.logData = LogData(h.requestInfo, "HIT", NULL, NULL,
                                          "cache_hit"),
                      !.toReturn = [obj |-> <<"cachedResponse">>,
                                    resp |-> cached]]
       ELSE [g EXCEPT !.pc = "originFetch",
                      !.steps = @ \o <<"miss", "originFetch">>,
                      !.calls.origin = @ + 1]

\* fetchFromS3 returns or throws on the answer of the origin, and
\* handleRequest runs lines 69-91 up to the next wait: the catch block on a
\* thrown fault, the log call on a failure status, and on success the clone
\* and cacheResponse up to its PUT (lines 182-188).
AfterOrigin(h, answer) ==
    IF answer.kind = "fault"
    THEN \* fetch throws: s3Response keeps its null
         Catch([h EXCEPT !.faults = @ \cup {[at |-> "origin",
                                              message |-> answer.message]}],
               answer.message)
    ELSE IF ~ok(answer)
    THEN [h EXCEPT !.pc = "log",
                   !.s3Response = answer,
                   !.steps = Append(@, "originFailure"),
                   !.logData =
                        LogData(h.requestInfo, "MISS",
                                extractResponseHeaders(answer),
                                "S3 fetch failed with status: "
                                    \o ToString(answer.status),
                                "s3_error"),
                   !.toReturn = [obj |-> <<"new Response">>,
                                 resp |-> NotFoundResponse]]
    ELSE LET responseToCache == clone(<<"s3Response">>)
         IN \* cacheResponse(cacheKey, responseToCache), whose PUT body is
            \* await response.clone().arrayBuffer()
            [h EXCEPT !.pc = "cachePut",
                      !.s3Response = answer,
                      !.steps = @ \o <<"originSuccess", "cachePut">>,
                      !.bodyUsed = @ \cup {clone(responseToCache)},
                      !.putBody =
                            [kind |-> "put",
                             key |-> h.cacheKey,
                             body |-> answer.body,
                             headers |-> answer.headers,
                             ttl |-> CACHE_TTL, swr |-> CACHE_SWR],
                      !.calls.put = @ + 1]

\* cacheResponse returns on the answer of the cache store (lines 195-198),
\* and handleRequest runs lines 93-102 up to the log call.
AfterPut(h, answer) ==
    LET g == [h EXCEPT !.faults = IF answer.kind = "fault"
                                  THEN @ \cup {[at |-> "cacheWrite",
                                                message |-> answer.message]}
                                  ELSE @]
    IN IF answer.kind = "fault" /\ cacheResponseThrows(answer)
       THEN Catch(g, answer.message)
       ELSE [g EXCEPT !.pc = "log",
                      !.steps = Append(@, "cached"),
                      !.logData =
                            LogData(h.requestInfo, "MISS",
                                    extractResponseHeaders(h.s3Response),
                                    NULL, "success"),
                      !.toReturn = [obj |-> <<"s3Response">>,
                                    resp |-> h.s3Response]]

\* Mutant of AfterLog: the response is returned without waiting for the log
\* call.
AfterLog_NotAwaited(h, accepted) ==
    [h EXCEPT !.pc = "done",
              !.steps = Append(@, "return"),
              !.response = Returned(h, h.toReturn)]

\* await logToBigQuery(logData) and the return that follows it (lines 55-63,
\* 75-84, 96-104, 110-119): the entry is built and handed to bigqueryLogger,
\* which accepts it or throws; then handleRequest returns.
AfterLog(h, accepted) ==
    LET g == [h EXCEPT !.logCalls = Append(@, h.logData),
                       !.bigquery = IF accepted
                                    THEN Append(@, LogEntry(h.logData))
                                    ELSE @,
                       !.faults = IF accepted THEN @
                                  ELSE @ \cup {[at |-> "log",
                                                message |-> "sink failed"]}]
    IN IF ~accepted /\ logToBigQueryThrows(accepted)
       THEN \* the fault leaves handleRequest: no response
            [g EXCEPT !.pc = "rejected",
                      !.steps = @ \o <<"log", "throw">>]
       ELSE [g EXCEPT !.pc = "done",
                      !.steps = @ \o <<"log", "return">>,
                      !.response = Returned(h, h.toReturn)]

\* What bigqueryLogger.log may do with the entry of invocation g: accept it
\* or throw, when g has reached a logToBigQuery call.
SinkAnswers(g) == IF g.pc = "log" THEN BOOLEAN ELSE {TRUE}

\* handleRequest from the answer of a wait to its next wait or, when the
\* invocation g has reached a logToBigQuery call, through that call, which
\* has no wait of its own, to the return.
Continue(g, accepted) == IF g.pc = "log" THEN AfterLog(g, accepted) ELSE g

\* Some handler has returned or thrown and the platform has not yet taken
\* its outcome: that happens before the next answer is delivered.
Running == \E h \in Handlers : h.pc \in {"done", "rejected"}

\* ----------------------------------------------------------------- actions
\* A request arrives: the fetch listener (lines 25-27) calls handleRequest.
HandleRequest ==
    /\ ~Running
    /\ BagCardinality(handlers) < NumReqs
    /\ \E req \in Requests :
        handlers' = handlers (+) SetToBag({Started(req)})
    /\ UNCHANGED cache

\* The cache store answers a lookup.
CacheLookupAnswered ==
    /\ ~Running
    /\ \E h \in Handlers :
        /\ h.pc = "cacheGet"
        /\ \E answer \in CacheAnswers(h.cacheKey) :
            \E accepted \in SinkAnswers(AfterLookup(h, answer)) :
                handlers' = Replace(h, Continue(AfterLookup(h, answer), accepted))
    /\ UNCHANGED cache

\* The origin answers a fetch.
OriginAnswered ==
    /\ ~Running
    /\ \E h \in Handlers :
        /\ h.pc = "originFetch"
        /\ \E answer \in OriginAnswers(h.request.path) :
            \E accepted \in SinkAnswers(AfterOrigin(h, answer)) :
                handlers' = Replace(h, Continue(AfterOrigin(h, answer), accepted))
    /\ UNCHANGED cache

\* The cache store answers a PUT: it stored the entry with the TTL and
\* stale-while-revalidate window of the CacheOverride, or it failed.
CachePutAnswered ==
    /\ ~Running
    /\ \E h \in Handlers :
        /\ h.pc = "cachePut"
        /\ \E answer \in PutAnswers, accepted \in BOOLEAN :
            /\ handlers' = Replace(h, Continue(AfterPut(h, answer), accepted))
            /\ cache' = IF answer.kind = "stored"
                        THEN [cache EXCEPT ![h.putBody.key] =
                                [kind |-> "entry", body |-> h.putBody.body,
                                 headers |-> h.putBody.headers,
                                 ttl |-> h.putBody.ttl,
                                 swr |-> h.putBody.swr]]
                        ELSE cache

\* The platform takes the outcome of handleRequest (event.respondWith, line
\* 26); the invocation and its locals are gone.
Finish ==
    /\ \E h \in Handlers :
        /\ h.pc \in {"done", "rejected"}
        /\ handlers' = handlers (-) SetToBag({h})
    /\ UNCHANGED cache

\* The TTL of an entry runs out: with swr 0 the cache store drops it.
Expire ==
    /\ ~Running
    /\ \E k \in Keys :
        /\ cache[k] # NULL
        /\ cache' = [cache EXCEPT ![k] = NULL]
    /\ UNCHANGED handlers

Next ==
    \/ HandleRequest
    \/ CacheLookupAnswered
    \/ OriginAnswered
    \/ CachePutAnswered
    \/ Finish
    \/ Expire

Spec == Init /\ [][Next]_vars

\* One request at a time, with every combination of client-IP headers: the
\* platform delivers a fetch event when no invocation is in flight.
HandleAnyRequest ==
    /\ handlers = EmptyBag
    /\ \E req \in AllRequests :
        handlers' = SetToBag({Started(req)})
    /\ UNCHANGED cache

NextExtract ==
    \/ HandleAnyRequest
    \/ CacheLookupAnswered
    \/ OriginAnswered
    \/ CachePutAnswered
    \/ Finish
    \/ Expire

SpecExtract == Init /\ [][NextExtract]_vars


\* ------------------------------------------------------------------ claims
Ended(h) == h.pc \in {"done", "rejected"}

Faulted(h, at) == \E f \in h.faults : f.at = at

\* The status, body and headers of a Response, without the state of its body.
Content(resp) ==
    [status |-> resp.status, body |-> resp.body, headers |-> resp.headers]

\* C1: every request that ended handed exactly one telemetry record to the
\* analytics sink, whatever branch it took and whatever fault was raised.
C1_ExactlyOneRecord ==
    \A h \in Handlers : Ended(h) => Len(h.bigquery) = 1

\* C2 (as claimed): a request whose origin fetch threw a transport fault ends
\* with the response 404 "Not Found" and one telemetry record of event type
\* origin_error (s3_error in the code's vocabulary).
C2_TransportFaultGives404 ==
    \A h \in Handlers :
        Ended(h) /\ Faulted(h, "origin") =>
            /\ h.pc = "done"
            /\ Content(h.response) = Content(NotFoundResponse)
            /\ Len(h.logCalls) = 1
            /\ h.logCalls[1].eventType \in {"origin_error", "s3_error"}

\* C2 (amended): a request whose origin fetch threw a transport fault ends
\* with the response 500 "Internal Server Error" and one logToBigQuery call
\* with event type error, cache status ERROR, the fault's message as error
\* and no origin headers.
C2_TransportFaultGives500 ==
    \A h \in Handlers :
        Ended(h) /\ Faulted(h, "origin") =>
            /\ h.pc = "done"
            /\ h.response.status = 500
            /\ h.response.body = TextBody("Internal Server Error")
            /\ Len(h.logCalls) = 1
            /\ h.logCalls[1].eventType = "error"
            /\ h.logCalls[1].cacheStatus = "ERROR"
            /\ h.logCalls[1].s3ResponseHeaders = NULL
            /\ \E f \in h.faults :
                f.at = "origin" /\ h.logCalls[1].error = f.message
            /\ \A i \in 1..Len(h.bigquery) : h.bigquery[i].eventType = "error"

C2_Witness ==
    \E h \in Handlers :
        /\ h.pc = "done"
        /\ Faulted(h, "origin")
        /\ h.cachedResponse = NULL
        /\ Len(h.bigquery) = 1

\* C3: no fault escapes handleRequest: every request that ended returned a
\* response to the client.
C3_NoFaultEscapes ==
    \A h \in Handlers : Ended(h) => h.pc = "done" /\ h.response # NULL


\* The pairs of cache status and event type a telemetry record may carry,
\* where originError is the event type of the origin failure branch.
Paired(rec, originError) ==
    <<rec.cacheStatus, rec.eventType>> \in
        {<<"HIT", "cache_hit">>, <<"MISS", "success">>,
         <<"MISS", originError>>, <<"ERROR", "error">>}

\* The record rec of the request h that returned agrees with its response.
Agrees(h, rec, originError) ==
    /\ rec.eventType = "cache_hit" =>
            /\ h.cachedResponse # NULL
            /\ Content(h.response) = Content(h.cachedResponse)
    /\ rec.eventType = "success" =>
            /\ h.s3Response # NULL
            /\ ok(h.s3Response)
            /\ Content(h.response) = Content(h.s3Response)
    /\ rec.eventType = originError =>
            Content(h.response) = Content(NotFoundResponse)
    /\ rec.eventType = "error" =>
            Content(h.response) = Content(ServerErrorResponse)

Records(h) ==
    {h.bigquery[i] : i \in 1..Len(h.bigquery)}
    \cup {h.logCalls[i] : i \in 1..Len(h.logCalls)}

\* C4 (as claimed): every telemetry record pairs HIT with cache_hit, MISS
\* with success or origin_error, ERROR with error, and agrees with the
\* response of its request.
C4_PairsOriginError ==
    \A h \in Handlers : \A rec \in Records(h) :
        /\ Paired(rec, "origin_error")
        /\ h.pc = "done" => Agrees(h, rec, "origin_error")

\* C4 (amended): every telemetry record pairs HIT with cache_hit, MISS with
\* success or s3_error, ERROR with error, and agrees with the response of its
\* request: a passed-through object for cache_hit and success, the 404 for
\* s3_error, the 500 for error.
C4_PairsS3Error ==
    \A h \in Handlers : \A rec \in Records(h) :
        /\ Paired(rec, "s3_error")
        /\ h.pc = "done"
        /\ Agrees(h, rec, "s3_error")

C4_Witness ==
    \E h \in Handlers :
        /\ h.pc = "done"
        /\ Len(h.bigquery) = 1
        /\ h.bigquery[1].eventType = "s3_error"
        /\ h.bigquery[1].cacheStatus = "MISS"
        /\ h.response.status = 404

\* C5: a request that missed the cache and got a status >= 400 from the
\* origin made no cache write, returned exactly 404 "Not Found" and logged
\* cache status MISS.
C5_OriginFailure ==
    \A h \in Handlers :
        Ended(h) /\ h.s3Response # NULL /\ h.s3Response.status >= 400 =>
            /\ h.pc = "done"
            /\ h.calls.put = 0
            /\ h.putBody = NULL
            /\ h.response.status = 404
            /\ h.response.body = TextBody("Not Found")
            /\ Len(h.logCalls) = 1
            /\ \A rec \in Records(h) : rec.cacheStatus = "MISS"

C5_Witness ==
    \E h \in Handlers :
        /\ h.pc = "done"
        /\ h.s3Response # NULL
        /\ h.s3Response.status = 503
        /\ h.response.status = 404
        /\ cache[cacheKey(h.request.path)] = NULL

\* C6: a request served as a cache hit made no origin fetch, and returns the
\* body and headers last written to the cache under its key.
C6_HitReturnsWritten ==
    \A h \in Handlers :
        Ended(h) /\ h.cachedResponse # NULL =>
            /\ h.pc = "done"
            /\ h.calls.origin = 0
            /\ h.s3Response = NULL
            /\ cache[cacheKey(h.request.path)] # NULL
            /\ h.response.body = cache[cacheKey(h.request.path)].body
            /\ h.response.headers = cache[cacheKey(h.request.path)].headers

C6_Witness ==
    \E h \in Handlers :
        /\ h.pc = "done"
        /\ h.cachedResponse # NULL
        /\ h.response.body.ver = NumVersions

\* C7: a request that missed the cache and got a success status from the
\* origin made exactly one origin fetch and one cache write, and returns the
\* origin status, body and headers with the body unread: the cache write
\* read the body of a copy.
C7_SuccessPassesThrough ==
    \A h \in Handlers :
        Ended(h) /\ h.s3Response # NULL /\ ok(h.s3Response) =>
            /\ h.pc = "done"
            /\ h.calls.origin = 1
            /\ h.calls.put = 1
            /\ Content(h.response) = Content(h.s3Response)
            /\ ~h.response.bodyUsed
            /\ h.putBody.body = h.s3Response.body

C7_Witness ==
    \E h \in Handlers :
        /\ h.pc = "done"
        /\ h.s3Response # NULL
        /\ ok(h.s3Response)
        /\ h.bodyUsed # {}
        /\ ~Faulted(h, "cacheWrite")
        /\ cache[cacheKey(h.request.path)] # NULL
        /\ cache[cacheKey(h.request.path)].body = h.response.body

\* C8 (as claimed): a request whose cache lookup faulted goes on to the
\* origin fetch and never ends in the 500/ERROR outcome.
C8_ReadFaultNever500 ==
    \A h \in Handlers :
        Ended(h) /\ Faulted(h, "cacheRead") =>
            /\ h.pc = "done"
            /\ h.calls.origin = 1
            /\ h.response.status # 500
            /\ \A rec \in Records(h) : rec.cacheStatus # "ERROR"

\* C8 (amended): a request whose cache lookup faulted goes on to the origin
\* fetch exactly as on a miss, and its response and telemetry are those of
\* the miss path for the origin's answer: the pass-through with MISS/success,
\* the 404 with MISS/s3_error, and the 500 with ERROR/error only when the
\* origin fetch itself threw.
C8_ReadFaultIsMiss ==
    \A h \in Handlers :
        Ended(h) /\ Faulted(h, "cacheRead") =>
            /\ h.pc = "done"
            /\ h.cachedResponse = NULL
            /\ h.calls.origin = 1
            /\ Len(h.logCalls) = 1
            /\ IF Faulted(h, "origin")
               THEN /\ h.response.status = 500
                    /\ h.logCalls[1].cacheStatus = "ERROR"
                    /\ h.logCalls[1].eventType = "error"
               ELSE /\ h.s3Response # NULL
                    /\ h.logCalls[1].cacheStatus = "MISS"
                    /\ IF ok(h.s3Response)
                       THEN /\ Content(h.response) = Content(h.s3Response)
                            /\ h.logCalls[1].eventType = "success"
                       ELSE /\ Content(h.response) = Content(NotFoundResponse)
                            /\ h.logCalls[1].eventType = "s3_error"

C8_Witness ==
    \E h \in Handlers :
        /\ h.pc = "done"
        /\ Faulted(h, "cacheRead")
        /\ ~Faulted(h, "origin")
        /\ h.response.status = 200
        /\ h.calls.origin = 1

\* C9: a request whose cache write faulted on the origin-success path still
\* returns the origin status, body and headers and logs MISS/success.
C9_WriteFaultHarmless ==
    \A h \in Handlers :
        Ended(h) /\ Faulted(h, "cacheWrite") =>
            /\ h.pc = "done"
            /\ Content(h.response) = Content(h.s3Response)
            /\ ok(h.s3Response)
            /\ Len(h.logCalls) = 1
            /\ \A rec \in Records(h) :
                rec.cacheStatus = "MISS" /\ rec.eventType = "success"

C9_Witness ==
    \E h \in Handlers :
        /\ h.pc = "done"
        /\ Faulted(h, "cacheWrite")
        /\ h.response.status = 200
        /\ Len(h.bigquery) = 1
        /\ cache[cacheKey(h.request.path)] = NULL

\* C10: a request in which a fault reached the outermost handler (the URL
\* did not parse, the origin fetch threw) logs one record with event type
\* error, cache status ERROR and the fault's message, and returns 500
\* "Internal Server Error".
C10_FaultGives500 ==
    \A h \in Handlers :
        Ended(h) /\ (Faulted(h, "url") \/ Faulted(h, "origin")) =>
            /\ h.pc = "done"
            /\ Content(h.response) = Content(ServerErrorResponse)
            /\ Len(h.logCalls) = 1
            /\ h.logCalls[1].eventType = "error"
            /\ h.logCalls[1].cacheStatus = "ERROR"
            /\ \E f \in h.faults : h.logCalls[1].error = f.message

\* C11: every response returned to a client is the cached object with status
\* 200, the origin's success status, body and headers, the fixed 404 "Not
\* Found" or the fixed 500 "Internal Server Error"; a non-success origin
\* status or body is never passed through.
C11_ResponseShapes ==
    \A h \in Handlers :
        h.response # NULL =>
            /\ \/ /\ h.cachedResponse # NULL
                  /\ h.response.status = 200
                  /\ Content(h.response) = Content(h.cachedResponse)
                  /\ h.response.body.kind = "object"
               \/ /\ h.cachedResponse = NULL
                  /\ h.s3Response # NULL
                  /\ h.s3Response.status \in 200..299
                  /\ Content(h.response) = Content(h.s3Response)
               \/ /\ h.response.status = 404
                  /\ h.response.body = TextBody("Not Found")
               \/ /\ h.response.status = 500
                  /\ h.response.body = TextBody("Internal Server Error")
            /\ h.response.status \in {200, 404, 500}
            /\ (h.s3Response # NULL /\ h.s3Response.status \notin 200..299) =>
                    /\ h.response.status = 404
                    /\ h.response.body = TextBody("Not Found")
                    /\ h.response.body # h.s3Response.body

C11_Witness ==
    \E h \in Handlers :
        /\ h.pc = "done"
        /\ h.s3Response # NULL
        /\ h.s3Response.status = 404
        /\ h.s3Response.body = TextBody("origin error document")
        /\ h.response.body = TextBody("Not Found")

\* C12: a request that ended with origin success and no cache fault leaves
\* the origin body and headers in the cache under "s3-object:" + path with
\* TTL 800 and stale-while-revalidate 0; and while that entry lasts, a
\* request for the path whose lookup is answered without a fault becomes a
\* hit: it returns 200 with the cached body, makes no origin call and logs
\* HIT / cache_hit.
C12_StoredThenHit ==
    [][\A h \in Handlers :
        LET key == <<"s", "3", "-", "o", "b", "j", "e", "c", "t", ":">>
                        \o h.request.path
        IN /\ (/\ h.pc = "done"
               /\ h.s3Response # NULL
               /\ h.s3Response.status \in 200..299
               /\ h.faults = {}) =>
                    cache[key] = [kind |-> "entry",
                                  body |-> h.s3Response.body,
                                  headers |-> h.s3Response.headers,
                                  ttl |-> 800, swr |-> 0]
           /\ (h.pc = "cacheGet" /\ cache[key] # NULL) =>
                \A g \in BagToSet(handlers') :
                    (handlers' = Replace(h, g) /\ g # h
                     /\ ~Faulted(g, "cacheRead")) =>
                        /\ g.pc = "done"
                        /\ g.calls.origin = 0
                        /\ g.response.status = 200
                        /\ g.response.body = cache[key].body
                        /\ g.response.headers = cache[key].headers
                        /\ Len(g.logCalls) = 1
                        /\ g.logCalls[1].cacheStatus = "HIT"
                        /\ g.logCalls[1].eventType = "cache_hit"
      ]_vars

C12_Witness ==
    \E h \in Handlers :
        /\ h.pc = "done"
        /\ h.faults = {}
        /\ h.cachedResponse # NULL
        /\ h.calls.origin = 0
        /\ h.response.status = 200
        /\ h.response.body = cache[h.cacheKey].body
        /\ cache[h.cacheKey].ttl = CACHE_TTL
        /\ Len(h.bigquery) = 1
        /\ h.bigquery[1].eventType = "cache_hit"

\* C13: the key of the cache lookup and of the cache write of a request is
\* "s3-object:" followed by the request path unchanged (leading slash kept);
\* the key is a function of the path and distinct paths have distinct keys.
C13_CacheKeyVerbatim ==
    LET prefix == <<"s", "3", "-", "o", "b", "j", "e", "c", "t", ":">>
    IN /\ \A h \in Handlers :
            /\ h.calls.get >= 1 =>
                    /\ h.cacheKey = prefix \o h.request.path
                    /\ h.cacheKey[Len(prefix) + 1] = "/"
                    /\ h.cacheKey \in DOMAIN cache
            /\ h.putBody # NULL => h.putBody.key = prefix \o h.request.path
       /\ handlers = EmptyBag =>
            \A p \in Paths :
                /\ cacheKey(p) = prefix \o p
                /\ \A q \in Paths : p # q => cacheKey(p) # cacheKey(q)

C13_Witness ==
    \E h \in Handlers :
        /\ h.pc = "done"
        /\ h.request.path = <<"/", "a">>
        /\ h.calls.get = 1
        /\ h.calls.put = 1
        /\ h.putBody.key = <<"s", "3", "-", "o", "b", "j", "e", "c", "t", ":", "/", "a">>
        /\ cache[h.putBody.key] # NULL

\* The steps that may come directly before `step` in the trace of a request.
Predecessors(step) ==
    CASE step = "extract"       -> {"start", "catch"}
      [] step = "cacheGet"      -> {"extract"}
      [] step = "hit"           -> {"cacheGet"}
      [] step = "miss"          -> {"cacheGet"}
      [] step = "originFetch"   -> {"miss"}
      [] step = "originSuccess" -> {"originFetch"}
      [] step = "originFailure" -> {"originFetch"}
      [] step = "cachePut"      -> {"originSuccess"}
      [] step = "cached"        -> {"cachePut"}
      [] step = "catch"         -> {"start", "originFetch", "cachePut"}
      [] step = "log"           -> {"hit", "originFailure", "cached", "extract"}
      [] step = "return"        -> {"log"}
      [] step = "throw"         -> {"catch", "log"}
      [] OTHER                  -> {}

\* C14: within one request the cache lookup is answered before the hit/miss
\* branch, the origin fetch is answered before any cache write, on origin
\* success the cache write is answered before the log call, and on every
\* branch the log call has been made and has ended before a response is
\* returned: every step of the program extends the trace of one request,
\* each new step directly after a step that must precede it.
C14_StepsOrdered ==
    [][\A g \in BagToSet(handlers') \ Handlers :
        LET s == g.steps
        IN /\ \/ /\ handlers' = handlers (+) SetToBag({g})
                 /\ s[1] = "start"
              \/ \E h \in Handlers :
                    /\ handlers' = Replace(h, g)
                    /\ Len(s) > Len(h.steps)
                    /\ SubSeq(s, 1, Len(h.steps)) = h.steps
                    /\ h.response = NULL
                    /\ h.logCalls = <<>>
                    /\ h.pc = "cacheGet" =>
                            h.cachedResponse = NULL /\ h.calls.origin = 0
                    /\ h.pc = "originFetch" =>
                            h.s3Response = NULL /\ h.calls.put = 0
                    /\ h.pc = "cachePut" => h.s3Response # NULL
           /\ \A j \in 2..Len(s) :
                /\ s[j - 1] \in Predecessors(s[j])
                /\ (s[j] = "log" /\ s[j - 1] = "extract") => s[j - 2] = "catch"
                /\ (s[j] = "cacheGet" /\ s[j - 1] = "extract") =>
                        s[j - 2] = "start"
           /\ g.response # NULL =>
                /\ Len(g.logCalls) = 1
                /\ Len(g.bigquery) = 1 \/ Faulted(g, "log")
                /\ s[Len(s)] = "return"
           /\ (g.response # NULL /\ g.s3Response # NULL
                    /\ g.s3Response.status \in 200..299) =>
                /\ g.calls.put = 1
                /\ SubSeq(s, Len(s) - 3, Len(s)) =
                        <<"cachePut", "cached", "log", "return">>
      ]_vars

C14_Witness ==
    \E h \in Handlers :
        /\ h.pc = "done"
        /\ h.response # NULL
        /\ h.steps = <<"start", "extract", "cacheGet", "miss", "originFetch",
                       "originSuccess", "cachePut", "cached", "log", "return">>

\* C15: a fault inside logToBigQuery never reaches handleRequest: a request
\* whose log call failed ends with the response it would have returned had
\* the call succeeded, not with the 500 of the catch block and not with a
\* rejection; the failure only costs the record.
C15_LogFaultSwallowed ==
    \A h \in Handlers :
        /\ (Ended(h) /\ Faulted(h, "log")) =>
                /\ h.pc = "done"
                /\ h.response # NULL
                /\ Content(h.response) = Content(h.toReturn.resp)
                /\ ~Faulted(h, "catch")
                /\ "catch" \in {h.steps[i] : i \in 1..Len(h.steps)} =>
                        Faulted(h, "origin")
                /\ Len(h.logCalls) = 1
                /\ h.bigquery = <<>>
        /\ h.pc = "done" => h.response = Returned(h, h.toReturn)

C15_Witness ==
    \E h \in Handlers :
        /\ h.pc = "done"
        /\ Faulted(h, "log")
        /\ h.s3Response # NULL
        /\ h.response.status = 200
        /\ h.response.body = h.s3Response.body
        /\ h.bigquery = <<>>

\* C16: concurrent misses are not coalesced: every request that missed issues
\* its own origin fetch and, on origin success, its own cache write, whatever
\* other requests for the same path are in flight; and each such request
\* ends with its own response and exactly one log call about itself.
C16_NoCoalescing ==
    \A h \in Handlers :
        /\ h.pc \in {"originFetch", "cachePut"} =>
                /\ h.cachedResponse = NULL
                /\ h.calls.origin = 1
        /\ h.pc = "cachePut" =>
                /\ h.calls.put = 1
                /\ h.putBody.key = h.cacheKey
                /\ h.putBody.body = h.s3Response.body
        /\ (Ended(h) /\ h.steps[Len(h.steps)] = "return"
                /\ h.cachedResponse = NULL) =>
                h.calls.origin = 1
        /\ (Ended(h) /\ h.calls.origin = 1) =>
                /\ h.pc = "done"
                /\ h.response # NULL
                /\ Len(h.logCalls) = 1
                /\ Len(h.bigquery) <= 1
                /\ h.logCalls[1].path = h.request.path
                /\ h.logCalls[1].ip = clientIP(h.request.headers)
                /\ (h.s3Response # NULL /\ h.s3Response.status \in 200..299) =>
                        /\ h.calls.put = 1
                        /\ Content(h.response) = Content(h.s3Response)
                        /\ h.logCalls[1].eventType = "success"

C16_Witness ==
    \E h1, h2 \in Handlers :
        /\ h1.request.path = h2.request.path
        /\ h1.pc = "done"
        /\ h1.cachedResponse = NULL
        /\ h1.calls.origin = 1
        /\ h1.calls.put = 1
        /\ h1.response.status = 200
        /\ h2.pc = "cachePut"
        /\ h2.cachedResponse = NULL
        /\ h2.calls.origin = 1
        /\ h2.calls.put = 1
        /\ h2.s3Response.body # h1.s3Response.body

\* The log call of an ended request is about the context `info`.
BuiltFrom(h, info) ==
    /\ Len(h.logCalls) = 1
    /\ h.logCalls[1].ip = info.ip
    /\ h.logCalls[1].path = info.path
    /\ h.logCalls[1].requestHeaders = info.requestHeaders

\* C17 as stated, for the requests whose URL parses: every ended request
\* invoked extractRequestInfo exactly once, on the fault branch too, and its
\* record is built from that context.
C17_ExtractedOnce ==
    \A h \in Handlers :
        (Ended(h) /\ h.request.urlValid) =>
            h.calls.extract = 1 /\ BuiltFrom(h, h.requestInfo)

\* C17: on the hit, success and origin-failure branches extractRequestInfo is
\* invoked once and the record is built from that context; on the fault
\* branch the catch block invokes it a second time on the same request and
\* the error record is built from the second context, which equals the
\* first; a request whose URL does not parse never reaches the extractor
\* and has no record.
C17_ExtractedPerBranch ==
    \A h \in Handlers :
        LET caught == "catch" \in {h.steps[i] : i \in 1..Len(h.steps)}
        IN /\ h.calls.extract <= 2
           /\ Ended(h) =>
                IF ~h.request.urlValid
                THEN /\ h.calls.extract = 0
                     /\ h.requestInfo = NULL
                     /\ h.logCalls = <<>>
                ELSE IF ~caught
                THEN /\ h.calls.extract = 1
                     /\ BuiltFrom(h, h.requestInfo)
                ELSE /\ h.calls.extract = 2
                     /\ h.logCalls[1].eventType = "error"
                     /\ BuiltFrom(h, extractRequestInfo(h.request,
                                                        h.request.path))
                     /\ BuiltFrom(h, h.requestInfo)

C17_Witness ==
    \E h \in Handlers :
        /\ h.pc = "done"
        /\ Faulted(h, "origin")
        /\ h.calls.extract = 2
        /\ h.logCalls[1].eventType = "error"
        /\ h.logCalls[1].ip = h.requestInfo.ip
        /\ h.response.status = 500

\* C18: a record carries origin response headers only if the request got a
\* response from the origin: null on a cache hit and on a fault raised
\* before an origin response, the headers of the origin response on success
\* and on origin failure; the entry has the JSON-string form of the origin
\* headers exactly when the structured form is not null.
C18_OriginHeadersOnlyFromOrigin ==
    \A h \in Handlers :
        /\ \A i \in 1..Len(h.logCalls) :
            LET d == h.logCalls[i]
            IN /\ d.s3ResponseHeaders # NULL => h.s3Response # NULL
               /\ d.eventType = "cache_hit" =>
                        /\ h.s3Response = NULL
                        /\ d.s3ResponseHeaders = NULL
               /\ (d.eventType = "error" /\ h.s3Response = NULL) =>
                        d.s3ResponseHeaders = NULL
               /\ d.eventType \in {"success", "s3_error"} =>
                        /\ h.s3Response # NULL
                        /\ d.s3ResponseHeaders # NULL
                        /\ d.s3ResponseHeaders.etag = h.s3Response.headers.etag
                        /\ d.s3ResponseHeaders.server = h.s3Response.headers.server
        /\ \A i \in 1..Len(h.bigquery) :
            LET e == h.bigquery[i]
            IN /\ e.s3ResponseHeaders = h.logCalls[i].s3ResponseHeaders
               /\ "s3ResponseHeadersJson" \in DOMAIN e <=>
                        e.s3ResponseHeaders # NULL
               /\ "s3ResponseHeadersJson" \in DOMAIN e =>
                        e.s3ResponseHeadersJson = Stringify(e.s3ResponseHeaders)

C18_Witness ==
    \E h \in Handlers :
        /\ h.pc = "done"
        /\ Faulted(h, "origin")
        /\ Len(h.bigquery) = 1
        /\ h.bigquery[1].eventType = "error"
        /\ h.bigquery[1].s3ResponseHeaders = NULL
        /\ "s3ResponseHeadersJson" \notin DOMAIN h.bigquery[1]

\* C19 as stated: the client identity is the value of the first of
\* fastly-client-ip, x-forwarded-for, x-real-ip that the request carries,
\* and "unknown" when it carries none.
C19_FirstPresentWins ==
    \A h \in Handlers :
        h.requestInfo # NULL =>
            LET hd == h.request.headers
            IN h.requestInfo.ip =
                    IF "fastly-client-ip" \in DOMAIN hd
                    THEN hd["fastly-client-ip"]
                    ELSE IF "x-forwarded-for" \in DOMAIN hd
                    THEN hd["x-forwarded-for"]
                    ELSE IF "x-real-ip" \in DOMAIN hd
                    THEN hd["x-real-ip"]
                    ELSE "unknown"

\* C19: the client identity is the value of the first of fastly-client-ip,
\* x-forwarded-for, x-real-ip that the request carries with a non-empty
\* value, and "unknown" when there is none; a header with an empty value
\* counts as absent; a lower-priority header never wins over a non-empty
\* higher-priority one, and the extraction yields a context for every
\* combination of absent, empty and non-empty headers.
C19_FirstNonEmptyWins ==
    \A h \in Handlers :
        LET hd == h.request.headers
            has == {n \in DOMAIN hd : hd[n] # ""}
        IN /\ (h.request.urlValid /\ h.calls.extract >= 1) =>
                    /\ h.requestInfo # NULL
                    /\ h.pc # "rejected"
           /\ h.requestInfo # NULL =>
                    /\ h.requestInfo.ip =
                            IF "fastly-client-ip" \in has
                            THEN hd["fastly-client-ip"]
                            ELSE IF "x-forwarded-for" \in has
                            THEN hd["x-forwarded-for"]
                            ELSE IF "x-real-ip" \in has
                            THEN hd["x-real-ip"]
                            ELSE "unknown"
                    /\ h.requestInfo.ip # ""
                    /\ h.requestInfo.requestHeaders = hd
                    /\ \A i \in 1..Len(h.logCalls) :
                            h.logCalls[i].ip = h.requestInfo.ip

C19_Witness ==
    \E h \in Handlers :
        /\ h.pc = "done"
        /\ DOMAIN h.request.headers = {"x-forwarded-for", "x-real-ip"}
        /\ h.request.headers["x-forwarded-for"] = ""
        /\ h.request.headers["x-real-ip"] = "10.0.0.3"
        /\ h.requestInfo.ip = "10.0.0.3"
        /\ Len(h.logCalls) = 1
        /\ h.logCalls[1].ip = "10.0.0.3"

\* C20: the cache is written on the origin-success path only: every entry
\* under "s3-object:" + P holds the body and headers of a success response
\* of the origin for the object of path P, never a failure response, never
\* the fixed 404 or 500 body, never the object of another path; and a
\* request builds a cache write only after its own origin success.
C20_CacheHoldsOriginSuccess ==
    /\ \A p \in Paths :
        LET e == cache[<<"s", "3", "-", "o", "b", "j", "e", "c", "t", ":">> \o p]
        IN e # NULL =>
            /\ e.body.kind = "object"
            /\ e.body.key = Tail(p)
            /\ e.body.ver \in 1..NumVersions
            /\ e.body \notin {TextBody("Not Found"),
                              TextBody("Internal Server Error"),
                              TextBody("origin error document")}
            /\ e.headers.etag = e.body.ver
            /\ e.headers.server = "AmazonS3"
            /\ e.ttl = 800
            /\ e.swr = 0
    /\ \A h \in Handlers :
        /\ (h.putBody # NULL \/ h.calls.put > 0) =>
            /\ h.calls.put = 1
            /\ h.s3Response # NULL
            /\ h.s3Response.status \in 200..299
            /\ h.putBody.body = h.s3Response.body
            /\ h.putBody.headers = h.s3Response.headers
            /\ h.putBody.body.key = Tail(h.request.path)
        /\ (h.s3Response # NULL /\ h.s3Response.status \notin 200..299) =>
            h.calls.put = 0

C20_Witness ==
    \E h \in Handlers :
        /\ h.pc = "done"
        /\ h.s3Response # NULL
        /\ h.s3Response.status = 503
        /\ h.response.status = 404
        /\ h.calls.put = 0
        /\ cache[h.cacheKey] # NULL
        /\ cache[h.cacheKey].body.kind = "object"
        /\ cache[h.cacheKey].body.key = Tail(h.request.path)

====
